---- MODULE Spec2Model ----
(***************************************************************************)
(* State machine of the CrowdQuest book creator, the App component of      *)
(* src/App.tsx.  One action per event handler or promise continuation; an  *)
(* action covers the handler, the batched render that follows it and the   *)
(* effects that render triggers.  A handler reads the state of the render  *)
(* it was created in: what an async handler captured when it was invoked   *)
(* is kept in the record of its invocation (runs, locates).  A control is  *)
(* available exactly when App.tsx renders it enabled.  The first App of    *)
(* src/unnamed/part_000 has the same handlers and controls.                *)
(***************************************************************************)
EXTENDS Integers, Sequences, FiniteSets, TLC

VARIABLES
    selectedImage,   \* useState<string | null>: the uploaded photo
    scenery,         \* useState(''): the theme text, a sequence of characters
    pageCount,       \* useState(3): the slider value
    status,          \* useState<AppStatus>
    resultImages,    \* useState<string[]>: the pages shown
    error,           \* useState<string | null>
    currentPage,     \* useState(0): index of the page viewed
    loadingStep,     \* useState(0): index of the loading message
    pagesCompleted,  \* useState(0)
    library,         \* useState<SavedBook[]>
    showLibrary,     \* useState(false)
    isLocating,      \* useState(false)
    hintBox,         \* useState<[n,n,n,n] | null>
    runs,            \* the invocations of handleGenerate that await a call
    started,         \* number of invocations that passed validation
    calls,           \* generateWaldoImage requests not yet resolved
    locates,         \* locateTarget requests not yet resolved
    now,             \* the last reading of Date.now()
    stored,          \* localStorage under STORAGE_KEY
    phase,           \* "boot" before the mount effects, "live" once they
                     \* ran, "crashed" when a render threw
    intervals,       \* number of setInterval timers not cleared
    isProcessing,    \* ImageUploader: useState(false)
    uploads,         \* the files picked, in order, each with the state of
                     \* its resizeAndCompress: "busy", "done" or "failed"
    canvas           \* sizes of the last image drawn and of its canvas

vars == <<selectedImage, scenery, pageCount, status, resultImages, error,
          currentPage, loadingStep, pagesCompleted, library, showLibrary,
          isLocating, hintBox, runs, started, calls, locates, now, stored,
          phase, intervals, isProcessing, uploads, canvas>>

\* the state of the ImageUploader component
uploader == <<isProcessing, uploads, canvas>>

----------------------------------------------------------------------------
(* Bounds of the model *)

MaxRuns == 1      \* invocations of handleGenerate that pass validation
MaxBooks == 2     \* books the library holds
MaxClock == 1     \* last clock reading of the session
MaxView == 5      \* page index the header arrow can reach
MaxPicks == 2     \* files picked in the uploader

----------------------------------------------------------------------------
(* Values *)

Null == "null"

IDLE == "IDLE"
GENERATING == "GENERATING"
SUCCESS == "SUCCESS"
ERROR == "ERROR"
AppStatus == {IDLE, GENERATING, SUCCESS, ERROR}

MinPages == 1
MaxPages == 5
DefaultPages == 3
NumLoadingMessages == 5

Photos == {"photoA", "photoB"}
CorePhotos == {"photoA"}

SP == " "
Themes == {<<>>, <<SP>>, <<SP, "a">>, <<"b">>}
CoreThemes == {<<SP>>, <<SP, "a">>}
BootThemes == {<<"b">>, <<SP>>}

MsgNoImage == "Please upload an image first!"
MsgNoScenery == "Please describe a scenery!"
MsgFallback == "Failed to generate. Please try again."
\* err.message of a rejected generate call; "" is an error without message
Reasons == {"rate limited", ""}

NoBox == <<>>
BoxMax == 1000
\* the boxes <<top, left, bottom, right>> the remote capability can answer
\* with: one in bounds, one with top below bottom, one past the range
Boxes == {<<100, 200, 300, 400>>, <<300, 400, 100, 200>>,
          <<0, 0, 1200, 500>>}

\* the value one generate request resolves to: each response is a new image
Img(run, idx) == [run |-> run, req |-> idx]

----------------------------------------------------------------------------
(* Pure functions *)

RECURSIVE TrimLeft(_)
TrimLeft(s) == IF s # <<>> /\ Head(s) = SP THEN TrimLeft(Tail(s)) ELSE s

RECURSIVE TrimRight(_)
TrimRight(s) ==
    IF s # <<>> /\ s[Len(s)] = SP THEN TrimRight(SubSeq(s, 1, Len(s) - 1)) ELSE s

\* String.prototype.trim
Trim(s) == TrimRight(TrimLeft(s))

\* a check that takes the untrimmed text
SceneryEmpty(s) == s = <<>>

\* the check of scenery in handleGenerate: !scenery.trim()
SceneryMissing(s) == Trim(s) = <<>>

\* Math.round(x) for x >= 0 is floor(x + 1/2); here x = 100 * done / total
RoundPercent(done, total) == (200 * done + total) \div (2 * total)

\* progressPercentage of the current render
progressPercentage == RoundPercent(pagesCompleted, pageCount)

\* err.message || "Failed to generate. Please try again."
ErrorText(reason) == IF reason = "" THEN MsgFallback ELSE reason

\* a loop that issues every remaining request at once
LoopCallsAtOnce(id, i, total) == {[run |-> id, idx |-> j] : j \in i .. total - 1}

\* a loop whose iterations issue no request
LoopCallsNone(id, i, total) == {}

\* the requests iteration i of the loop of a run issues before it awaits
LoopCalls(id, i, total) == {[run |-> id, idx |-> i]}

\* a list that takes the new page at its front
Unshift(list, x) == <<x>> \o list

\* generatedPages.push(generatedUrl)
Push(list, x) == Append(list, x)

\* useEffect on [currentPage]: the hint is cleared when the page index changed
HintAfterPage(oldPage, newPage, box) == IF newPage # oldPage THEN NoBox ELSE box

----------------------------------------------------------------------------
(* resizeAndCompress of the ImageUploader: the size of the canvas for an   *)
(* image of w x h pixels.  width and height are doubles; the assignment to *)
(* canvas.width and canvas.height drops the fraction.                      *)

MAX_SIDE == 1200

\* the pairs <<longer side, other side>> of the files of the model for which
\* the double other * (1200 / longer) lies below the integer
\* other * 1200 / longer: 1160 * (1200 / 1392) is 999.9999999999999 and
\* 2191 * (1200 / 2191) is 1199.9999999999998
FloatBelow == {<<1392, 1160>>, <<2191, 2191>>}

\* other *= MAX / longer, then the fraction dropped
Scaled(other, longer) ==
    LET q == (other * MAX_SIDE) \div longer
    IN  IF <<longer, other>> \in FloatBelow THEN q - 1 ELSE q

\* a resize that looks at the width only
ResizeByWidth(w, h) ==
    IF w > MAX_SIDE THEN <<MAX_SIDE, Scaled(h, w)>> ELSE <<w, h>>

\* <<canvas.width, canvas.height>>
ResizeDims(w, h) ==
    IF w > h
    THEN IF w > MAX_SIDE THEN <<MAX_SIDE, Scaled(h, w)>> ELSE <<w, h>>
    ELSE IF h > MAX_SIDE THEN <<Scaled(w, h), MAX_SIDE>> ELSE <<w, h>>

\* no canvas drawn yet
NoCanvas == [w |-> 0, h |-> 0, width |-> 0, height |-> 0]

\* the files the user picks: the photo each holds and its size in pixels
Files ==
    {[name |-> "photoA", w |-> sz[1], h |-> sz[2]] :
        sz \in {<<1, 1>>, <<800, 600>>, <<1200, 1200>>, <<3000, 1500>>,
                <<1392, 1160>>}}
    \cup
    {[name |-> "photoB", w |-> sz[1], h |-> sz[2]] :
        sz \in {<<1500, 3000>>, <<2191, 2191>>, <<5000, 1>>, <<1201, 1200>>,
                <<1160, 1392>>}}

----------------------------------------------------------------------------
(* The loading message interval: the effect on status.  A render in which  *)
(* status changed runs the cleanup of the effect of the previous render,   *)
(* which clears the interval that effect set, and then the effect, which   *)
(* sets an interval when status is GENERATING.                             *)

\* an effect without cleanup
TimerLeaks(old, new, n) ==
    IF new # old /\ new = GENERATING THEN n + 1 ELSE n

\* the intervals left after the render that changes status from old to new
TimerEffect(old, new, n) ==
    IF new = old THEN n
    ELSE LET cleared == IF old = GENERATING THEN n - 1 ELSE n
         IN  IF new = GENERATING THEN cleared + 1 ELSE cleared

----------------------------------------------------------------------------
(* JSON.stringify and JSON.parse.  A JSON text is a sequence of tokens     *)
(* <<kind, value>>: the punctuation marks, null, numbers, and quoted       *)
(* strings, whose kind names what the model uses for the characters of the *)
(* string ("str" a name, "chars" a sequence of characters, "url" an image).*)

Punct(c) == <<c, 0>>
JsonNull == <<"null", 0>>
Num(n) == <<"num", n>>
Quoted(kind, x) == <<kind, x>>
StringKinds == {"str", "chars", "url"}

RECURSIVE Joined(_, _)
\* the texts i .. Len(texts) of the items of an array, separated by commas
Joined(texts, i) ==
    IF i > Len(texts) THEN <<>>
    ELSE (IF i > 1 THEN <<Punct(",")>> ELSE <<>>)
         \o texts[i] \o Joined(texts, i + 1)

\* a string[] of images
StringifyUrls(urls) ==
    <<Punct("[")>>
    \o Joined([i \in DOMAIN urls |-> <<Quoted("url", urls[i])>>], 1)
    \o <<Punct("]")>>

\* a SavedBook: its own properties in the order newBook creates them
StringifyBook(b) ==
    <<Punct("{"),
      Quoted("str", "id"), Punct(":"), Quoted("str", b.id), Punct(","),
      Quoted("str", "title"), Punct(":"), Quoted("chars", b.title), Punct(","),
      Quoted("str", "images"), Punct(":")>>
    \o StringifyUrls(b.images) \o
    <<Punct(","),
      Quoted("str", "targetImage"), Punct(":"),
      IF b.targetImage = Null THEN JsonNull ELSE Quoted("str", b.targetImage),
      Punct(","),
      Quoted("str", "createdAt"), Punct(":"), Num(b.createdAt),
      Punct("}")>>

\* JSON.stringify(library)
Stringify(books) ==
    <<Punct("[")>>
    \o Joined([i \in DOMAIN books |-> StringifyBook(books[i])], 1)
    \o <<Punct("]")>>

\* the result of a parse that fails
ParseError == [ok |-> FALSE, kind |-> "error", val |-> 0, rest |-> <<>>]

\* the object of the members read, a later member replacing an earlier one
\* of the same name
ObjectOf(members) ==
    [name \in {members[i][1] : i \in DOMAIN members} |->
        LET last == CHOOSE i \in DOMAIN members :
                       /\ members[i][1] = name
                       /\ \A j \in DOMAIN members :
                             members[j][1] = name => j <= i
        IN  members[last][2]]

RECURSIVE ParseValue(_), ParseElements(_, _), ParseMembers(_, _)

\* one JSON value at the head of the tokens t, and the tokens after it
ParseValue(t) ==
    IF Len(t) = 0 THEN ParseError
    ELSE LET kind == Head(t)[1]
         IN  IF kind \in StringKinds
             THEN [ok |-> TRUE, kind |-> "string", val |-> Head(t)[2],
                   rest |-> Tail(t)]
             ELSE IF kind = "num"
             THEN [ok |-> TRUE, kind |-> "number", val |-> Head(t)[2],
                   rest |-> Tail(t)]
             ELSE IF kind = "null"
             THEN [ok |-> TRUE, kind |-> "null", val |-> Null,
                   rest |-> Tail(t)]
             ELSE IF kind = "["
             THEN IF Len(t) >= 2 /\ t[2][1] = "]"
                  THEN [ok |-> TRUE, kind |-> "array", val |-> <<>>,
                        rest |-> Tail(Tail(t))]
                  ELSE ParseElements(Tail(t), <<>>)
             ELSE IF kind = "{"
             THEN IF Len(t) >= 2 /\ t[2][1] = "}"
                  THEN [ok |-> TRUE, kind |-> "object", val |-> <<>>,
                        rest |-> Tail(Tail(t))]
                  ELSE ParseMembers(Tail(t), <<>>)
             ELSE ParseError

\* the elements of an array after its opening bracket
ParseElements(t, acc) ==
    LET v == ParseValue(t)
    IN  IF ~v.ok \/ Len(v.rest) = 0 THEN ParseError
        ELSE IF Head(v.rest)[1] = ","
        THEN ParseElements(Tail(v.rest), Append(acc, v.val))
        ELSE IF Head(v.rest)[1] = "]"
        THEN [ok |-> TRUE, kind |-> "array", val |-> Append(acc, v.val),
              rest |-> Tail(v.rest)]
        ELSE ParseError

\* the members of an object after its opening brace
ParseMembers(t, acc) ==
    IF Len(t) < 3 \/ Head(t)[1] # "str" \/ t[2][1] # ":" THEN ParseError
    ELSE LET v == ParseValue(Tail(Tail(t)))
             members == Append(acc, <<Head(t)[2], v.val>>)
         IN  IF ~v.ok \/ Len(v.rest) = 0 THEN ParseError
             ELSE IF Head(v.rest)[1] = ","
             THEN ParseMembers(Tail(v.rest), members)
             ELSE IF Head(v.rest)[1] = "}"
             THEN [ok |-> TRUE, kind |-> "object", val |-> ObjectOf(members),
                   rest |-> Tail(v.rest)]
             ELSE ParseError

\* JSON.parse(text): the whole text is one value, or the parse throws
JsonParse(text) ==
    LET v == ParseValue(text)
    IN  IF v.ok /\ Len(v.rest) = 0 THEN v ELSE ParseError

----------------------------------------------------------------------------
(* localStorage under STORAGE_KEY: absent, or a text *)

Absent == [present |-> FALSE, text |-> <<>>]

\* a persist effect that never writes
NotPersisted(books) == Absent

\* localStorage.setItem(STORAGE_KEY, JSON.stringify(library))
Persisted(books) == [present |-> TRUE, text |-> Stringify(books)]

----------------------------------------------------------------------------
(* Initial state: the state after the first render and its effects.  The   *)
(* library is what an earlier session left in localStorage: nothing, or a  *)
(* book of two pages saved at clock reading 0.                             *)

StoredBook ==
    [id |-> ToString(0), title |-> <<SP, "a">>,
     images |-> <<Img(0, 0), Img(0, 1)>>, targetImage |-> "photoA",
     createdAt |-> 0]

StoredLibraries == {<<>>, <<StoredBook>>}

Init ==
    /\ selectedImage = Null
    /\ scenery = <<>>
    /\ pageCount = DefaultPages
    /\ status = IDLE
    /\ resultImages = <<>>
    /\ error = Null
    /\ currentPage = 0
    /\ loadingStep = 0
    /\ pagesCompleted = 0
    /\ library \in StoredLibraries
    /\ showLibrary = FALSE
    /\ isLocating = FALSE
    /\ hintBox = NoBox
    /\ runs = <<>>
    /\ started = 0
    /\ calls = {}
    /\ locates = {}
    /\ now = 1
    /\ stored = Persisted(library)
    /\ phase = "live"
    /\ intervals = 0
    /\ isProcessing = FALSE
    /\ uploads = <<>>
    /\ canvas = NoCanvas

----------------------------------------------------------------------------
(* The first render and its effects *)

\* a stored book without pages
EmptyBook ==
    [id |-> ToString(0), title |-> <<SP, "a">>, images |-> <<>>,
     targetImage |-> "photoA", createdAt |-> 0]

\* what an earlier session, another version or the user can have left under
\* the key: nothing, the empty string, a truncated text, the text null, and
\* the texts of libraries
StoredValues ==
    {Absent,
     [present |-> TRUE, text |-> <<>>],
     [present |-> TRUE, text |-> <<Punct("[")>>],
     [present |-> TRUE, text |-> <<JsonNull>>],
     Persisted(<<>>), Persisted(<<StoredBook>>), Persisted(<<EmptyBook>>)}

\* the state of the first render: the useState initial values
InitBoot ==
    /\ selectedImage = Null
    /\ scenery = <<>>
    /\ pageCount = DefaultPages
    /\ status = IDLE
    /\ resultImages = <<>>
    /\ error = Null
    /\ currentPage = 0
    /\ loadingStep = 0
    /\ pagesCompleted = 0
    /\ library = <<>>
    /\ showLibrary = FALSE
    /\ isLocating = FALSE
    /\ hintBox = NoBox
    /\ runs = <<>>
    /\ started = 0
    /\ calls = {}
    /\ locates = {}
    /\ now = 1
    /\ stored \in StoredValues
    /\ phase = "boot"
    /\ intervals = 0
    /\ isProcessing = FALSE
    /\ uploads = <<>>
    /\ canvas = NoCanvas

\* what the load effect passes to setLibrary for the value saved it read:
\* nothing (kind "none") when saved is falsy or JSON.parse throws
Loaded(saved) ==
    IF ~saved.present \/ Len(saved.text) = 0
    THEN [kind |-> "none", val |-> <<>>]
    ELSE LET v == JsonParse(saved.text)
         IN  IF v.ok THEN [kind |-> v.kind, val |-> v.val]
             ELSE [kind |-> "none", val |-> <<>>]

\* The effects of the first render, in order: the load effect reads the key
\* and calls setLibrary, the persist effect writes the library of the first
\* render, the empty list; then the render with the library loaded and its
\* persist effect.  With null loaded that render throws on library.length
\* and React unmounts the component, the state of the first render being
\* the last one shown.
Mount ==
    /\ phase = "boot"
    /\ LET loaded == Loaded(stored)
       IN  IF loaded.kind = "none"
           THEN /\ phase' = "live"
                /\ stored' = Persisted(library)
                /\ UNCHANGED library
           ELSE IF loaded.kind = "array"
           THEN /\ phase' = "live"
                /\ library' = loaded.val
                /\ stored' = Persisted(loaded.val)
           ELSE /\ phase' = "crashed"
                /\ stored' = Persisted(library)
                /\ UNCHANGED library
    /\ UNCHANGED <<selectedImage, scenery, pageCount, status, resultImages,
                   error, currentPage, loadingStep, pagesCompleted,
                   showLibrary, isLocating, hintBox, runs, started, calls,
                   locates, now, intervals, uploader>>

----------------------------------------------------------------------------
(* Inputs of the sidebar *)

\* onImageSelect of the ImageUploader
OnImageSelect(img) ==
    /\ selectedImage' = img
    /\ error' = Null
    /\ UNCHANGED <<scenery, pageCount, status, resultImages, currentPage,
                   loadingStep, pagesCompleted, library, showLibrary,
                   isLocating, hintBox, runs, started, calls, locates, now>>
    /\ UNCHANGED <<stored, phase, intervals, uploader>>

\* onChange of the theme textarea
SetScenery(t) ==
    /\ scenery' = t
    /\ UNCHANGED <<selectedImage, pageCount, status, resultImages, error,
                   currentPage, loadingStep, pagesCompleted, library,
                   showLibrary, isLocating, hintBox, runs, started, calls, locates, now>>
    /\ UNCHANGED <<stored, phase, intervals, uploader>>

\* onChange of the page-count slider
SetPageCount(n) ==
    /\ pageCount' = n
    /\ UNCHANGED <<selectedImage, scenery, status, resultImages, error,
                   currentPage, loadingStep, pagesCompleted, library,
                   showLibrary, isLocating, hintBox, runs, started, calls, locates, now>>
    /\ UNCHANGED <<stored, phase, intervals, uploader>>

----------------------------------------------------------------------------
(* handleGenerate *)

\* the values an invocation that passed validation holds at its first await:
\* the photo, theme and page count of the render it was invoked in, the loop
\* index and the local list generatedPages
NewRun ==
    [photo |-> selectedImage, scenery |-> scenery, total |-> pageCount,
     i |-> 0, generatedPages |-> <<>>, reset |-> FALSE]

\* runs without the invocation id, which has returned
Returned(id) == [k \in DOMAIN runs \ {id} |-> runs[k]]

\* the Generate button is disabled while status is GENERATING
HandleGenerate ==
    /\ status # GENERATING
    /\ IF selectedImage = Null
       THEN /\ error' = MsgNoImage
            /\ UNCHANGED <<status, resultImages, pagesCompleted, currentPage,
                           hintBox, runs, started, calls>>
       ELSE IF SceneryMissing(scenery)
       THEN /\ error' = MsgNoScenery
            /\ UNCHANGED <<status, resultImages, pagesCompleted, currentPage,
                           hintBox, runs, started, calls>>
       ELSE /\ started' = started + 1
            /\ error' = Null
            /\ resultImages' = <<>>
            /\ pagesCompleted' = 0
            /\ currentPage' = 0
            /\ hintBox' = NoBox
            /\ IF pageCount > 0
               THEN /\ status' = GENERATING
                    /\ runs' = runs @@ ((started + 1) :> NewRun)
                    /\ calls' = calls \cup LoopCalls(started + 1, 0, pageCount)
               ELSE /\ status' = SUCCESS
                    /\ UNCHANGED <<runs, calls>>
    /\ UNCHANGED <<selectedImage, scenery, pageCount, loadingStep, library,
                   showLibrary, isLocating, locates, now>>
    /\ UNCHANGED <<stored, phase, uploader>>
    /\ intervals' = TimerEffect(status, status', intervals)

\* a generate request resolves: the loop body after the await, then either
\* the next iteration up to its await or the end of the loop
GenerateOk(c) ==
    /\ c \in calls
    /\ c.run \in DOMAIN runs
    /\ LET r == runs[c.run]
           gp == Push(r.generatedPages, Img(c.run, c.idx))
           i1 == r.i + 1
       IN  /\ pagesCompleted' = i1
           /\ resultImages' = gp
           /\ IF i1 < r.total
              THEN /\ calls' = (calls \ {c}) \cup LoopCalls(c.run, i1, r.total)
                   /\ runs' = [runs EXCEPT ![c.run] =
                                  [r EXCEPT !.i = i1, !.generatedPages = gp]]
                   /\ UNCHANGED status
              ELSE /\ calls' = calls \ {c}
                   /\ runs' = Returned(c.run)
                   /\ status' = SUCCESS
    /\ UNCHANGED <<selectedImage, scenery, pageCount, error, currentPage,
                   loadingStep, library, showLibrary, isLocating, hintBox,
                   started, locates, now>>
    /\ UNCHANGED <<stored, phase, uploader>>
    /\ intervals' = TimerEffect(status, status', intervals)

\* a generate request rejects: the catch block
GenerateFail(c, reason) ==
    /\ c \in calls
    /\ c.run \in DOMAIN runs
    /\ error' = ErrorText(reason)
    /\ status' = ERROR
    /\ calls' = calls \ {c}
    /\ runs' = Returned(c.run)
    /\ UNCHANGED <<selectedImage, scenery, pageCount, resultImages,
                   currentPage, loadingStep, pagesCompleted, library,
                   showLibrary, isLocating, hintBox, started, locates, now>>
    /\ UNCHANGED <<stored, phase, uploader>>
    /\ intervals' = TimerEffect(status, status', intervals)

\* the callback of an interval: setLoadingStep(prev => (prev + 1) % length)
Tick ==
    /\ intervals > 0
    /\ loadingStep' = (loadingStep + 1) % NumLoadingMessages
    /\ UNCHANGED <<selectedImage, scenery, pageCount, status, resultImages,
                   error, currentPage, pagesCompleted, library, showLibrary,
                   isLocating, hintBox, runs, started, calls, locates, now,
                   stored, phase, intervals, uploader>>

----------------------------------------------------------------------------
(* Reset and restart *)

\* the Reset button is rendered only while status is SUCCESS.  The field
\* reset of an invocation records that Reset was pressed while it awaited:
\* the code keeps no such mark, and no action reads it.
HandleReset ==
    /\ status = SUCCESS
    /\ status' = IDLE
    /\ resultImages' = <<>>
    /\ scenery' = <<>>
    /\ pagesCompleted' = 0
    /\ currentPage' = 0
    /\ selectedImage' = Null
    /\ hintBox' = NoBox
    /\ runs' = [k \in DOMAIN runs |-> [runs[k] EXCEPT !.reset = TRUE]]
    /\ UNCHANGED <<pageCount, error, loadingStep, library, showLibrary,
                   isLocating, started, calls, locates, now>>
    /\ UNCHANGED <<stored, phase, uploader>>
    /\ intervals' = TimerEffect(status, status', intervals)

\* the button of the Error view: onClick={() => setStatus(AppStatus.IDLE)}
RestartFromError ==
    /\ status = ERROR
    /\ status' = IDLE
    /\ UNCHANGED <<selectedImage, scenery, pageCount, resultImages, error,
                   currentPage, loadingStep, pagesCompleted, library,
                   showLibrary, isLocating, hintBox, runs, started, calls, locates, now>>
    /\ UNCHANGED <<stored, phase, uploader>>
    /\ intervals' = TimerEffect(status, status', intervals)

----------------------------------------------------------------------------
(* Library *)

\* the header button toggles the overlay; its close button and the button of
\* the Idle view are the two directions of the same change
ToggleLibrary ==
    /\ showLibrary' = ~showLibrary
    /\ UNCHANGED <<selectedImage, scenery, pageCount, status, resultImages,
                   error, currentPage, loadingStep, pagesCompleted, library,
                   isLocating, hintBox, runs, started, calls, locates, now>>
    /\ UNCHANGED <<stored, phase, intervals, uploader>>

\* newBook of saveToLibrary; t1 and t2 are its two readings of Date.now()
NewBook(t1, t2) ==
    [id |-> ToString(t1), title |-> scenery, images |-> resultImages,
     targetImage |-> selectedImage, createdAt |-> t2]

\* a save that never returns early
AlwaysSomething(pages) == FALSE

\* resultImages.length === 0
NothingToSave(pages) == Len(pages) = 0

\* a save that overwrites the newest book
ReplaceFirst(book, prev) ==
    IF Len(prev) = 0 THEN <<book>> ELSE <<book>> \o Tail(prev)

\* a save that puts the book last
AppendBook(book, prev) == prev \o <<book>>

\* [newBook, ...prev]
Prepend(book, prev) == <<book>> \o prev

\* the Save button is rendered only while status is SUCCESS; with no page
\* the handler returns at once and changes nothing.  The render that
\* follows runs the persist effect.
SaveToLibrary ==
    /\ status = SUCCESS
    /\ IF NothingToSave(resultImages)
       THEN UNCHANGED <<library, now, stored>>
       ELSE /\ Len(library) < MaxBooks
            /\ \E t1 \in now .. MaxClock : \E t2 \in t1 .. MaxClock :
                  /\ now' = t2
                  /\ library' = Prepend(NewBook(t1, t2), library)
            /\ stored' = Persisted(library')
    /\ UNCHANGED <<selectedImage, scenery, pageCount, status, resultImages,
                   error, currentPage, loadingStep, pagesCompleted,
                   showLibrary, isLocating, hintBox, runs, started, calls,
                   locates, phase, intervals, uploader>>

\* a removal of the first book with the id only
WithoutFirstOf(books, id) ==
    IF \A i \in DOMAIN books : books[i].id # id THEN books
    ELSE LET first == CHOOSE i \in DOMAIN books :
                         /\ books[i].id = id
                         /\ \A j \in 1 .. i - 1 : books[j].id # id
         IN  SubSeq(books, 1, first - 1) \o SubSeq(books, first + 1, Len(books))

\* prev.filter(b => b.id !== id)
WithoutId(books, id) ==
    LET Keep(b) == b.id # id IN SelectSeq(books, Keep)

\* the trash button of entry k of the overlay, confirmed (a cancelled
\* confirm changes nothing); the render that follows runs the persist effect
DeleteBook(k) ==
    /\ showLibrary
    /\ k \in 1 .. Len(library)
    /\ library' = WithoutId(library, library[k].id)
    /\ stored' = Persisted(library')
    /\ UNCHANGED <<selectedImage, scenery, pageCount, status, resultImages,
                   error, currentPage, loadingStep, pagesCompleted,
                   showLibrary, isLocating, hintBox, runs, started, calls,
                   locates, now, phase, intervals, uploader>>

\* a click on entry k of the overlay
LoadBook(k) ==
    /\ showLibrary
    /\ k \in 1 .. Len(library)
    /\ LET book == library[k]
       IN  /\ selectedImage' = book.targetImage
           /\ scenery' = book.title
           /\ resultImages' = book.images
           /\ pageCount' = Len(book.images)
           /\ currentPage' = 0
           /\ status' = SUCCESS
           /\ showLibrary' = FALSE
           /\ hintBox' = NoBox
    /\ UNCHANGED <<error, loadingStep, pagesCompleted, library, isLocating,
                   runs, started, calls, locates, now>>
    /\ UNCHANGED <<stored, phase, uploader>>
    /\ intervals' = TimerEffect(status, status', intervals)

----------------------------------------------------------------------------
(* Book viewer: rendered when status is SUCCESS or a page exists *)

ViewerShown == status = SUCCESS \/ Len(resultImages) > 0

Max(a, b) == IF a >= b THEN a ELSE b
Min(a, b) == IF a <= b THEN a ELSE b

\* a change of the page index, with the effect that clears the hint
GoToPage(p) ==
    /\ currentPage' = p
    /\ hintBox' = HintAfterPage(currentPage, p, hintBox)
    /\ UNCHANGED <<selectedImage, scenery, pageCount, status, resultImages,
                   error, loadingStep, pagesCompleted, library, showLibrary,
                   isLocating, runs, started, calls, locates, now>>
    /\ UNCHANGED <<stored, phase, intervals, uploader>>

\* header arrows, disabled at the first and at the last page.  The next
\* arrow stays enabled when currentPage is past the last page: MaxView caps
\* the index it can reach here.
PrevPage ==
    /\ ViewerShown
    /\ currentPage # 0
    /\ GoToPage(currentPage - 1)

NextPage ==
    /\ ViewerShown
    /\ currentPage # Len(resultImages) - 1
    /\ currentPage < MaxView
    /\ GoToPage(currentPage + 1)

\* arrows over the viewport
HoverPrev ==
    /\ ViewerShown
    /\ currentPage # Max(0, currentPage - 1)
    /\ GoToPage(Max(0, currentPage - 1))

HoverNext ==
    /\ ViewerShown
    /\ currentPage # Min(Len(resultImages) - 1, currentPage + 1)
    /\ GoToPage(Min(Len(resultImages) - 1, currentPage + 1))

\* thumbnail strip
Thumbnail(idx) ==
    /\ ViewerShown
    /\ idx \in 0 .. Len(resultImages) - 1
    /\ idx # currentPage
    /\ GoToPage(idx)

----------------------------------------------------------------------------
(* geminiService.locateTarget, from the gateway contract of the design: a  *)
(* box in the 0 .. 1000 space, null when the target is not found, and a    *)
(* rejection (LocateFailed) for an answer that violates the box bounds     *)

\* a gateway that passes every answer through
LocateTargetUnchecked(raw) ==
    IF raw = NoBox THEN [kind |-> "null", box |-> NoBox]
    ELSE [kind |-> "box", box |-> raw]

\* what the call settles to when the remote capability answers raw
LocateTarget(raw) ==
    IF raw = NoBox THEN [kind |-> "null", box |-> NoBox]
    ELSE IF /\ 0 <= raw[1] /\ raw[1] <= raw[3] /\ raw[3] <= BoxMax
            /\ 0 <= raw[2] /\ raw[2] <= raw[4] /\ raw[4] <= BoxMax
         THEN [kind |-> "box", box |-> raw]
         ELSE [kind |-> "throw", box |-> NoBox]

----------------------------------------------------------------------------
(* handleLocateMe *)

\* a Scan button that is never disabled
ScanAlways == TRUE

\* disabled={isLocating}
ScanEnabled == ~isLocating

\* a start that keeps the hint shown
HintKept(box) == box

\* setHintBox(null) at the start of handleLocateMe
HintAtScan(box) == NoBox

\* resultImages[currentPage] is defined
PageExists(pages, p) == p >= 0 /\ p < Len(pages)

\* the Scan button is disabled while isLocating; without a photo or without
\* a page at currentPage the handler returns at once and changes nothing
HandleLocateMe ==
    /\ ViewerShown
    /\ ScanEnabled
    /\ selectedImage # Null
    /\ PageExists(resultImages, currentPage)
    /\ isLocating' = TRUE
    /\ hintBox' = HintAtScan(hintBox)
    /\ locates' = locates \cup
          {[photo |-> selectedImage, image |-> resultImages[currentPage + 1],
            page |-> currentPage]}
    /\ UNCHANGED <<selectedImage, scenery, pageCount, status, resultImages,
                   error, currentPage, loadingStep, pagesCompleted, library,
                   showLibrary, runs, started, calls, now>>
    /\ UNCHANGED <<stored, phase, intervals, uploader>>

\* locateTarget resolves to box: a box, or NoBox for null
LocateResolve(l, box) ==
    /\ l \in locates
    /\ locates' = locates \ {l}
    /\ hintBox' = IF box # NoBox THEN box ELSE hintBox
    /\ isLocating' = FALSE
    /\ UNCHANGED <<selectedImage, scenery, pageCount, status, resultImages,
                   error, currentPage, loadingStep, pagesCompleted, library,
                   showLibrary, runs, started, calls, now>>
    /\ UNCHANGED <<stored, phase, intervals, uploader>>

\* a catch block that shows the failure
LocateFailShown(err) == MsgFallback

\* the catch block of handleLocateMe: console.error, the error shown stays
LocateFailError(err) == err

\* locateTarget rejects (a transport error, or an answer the gateway
\* refuses): catch logs, finally clears the flag
LocateFail(l) ==
    /\ l \in locates
    /\ locates' = locates \ {l}
    /\ isLocating' = FALSE
    /\ error' = LocateFailError(error)
    /\ UNCHANGED <<selectedImage, scenery, pageCount, status, resultImages,
                   currentPage, loadingStep, pagesCompleted, library,
                   showLibrary, hintBox, runs, started, calls, now>>
    /\ UNCHANGED <<stored, phase, intervals, uploader>>

----------------------------------------------------------------------------
(* ImageUploader: handleFileChange.  The upload area is not disabled while *)
(* a file is processed.                                                    *)

\* a file is picked: setIsProcessing(true), then the await
PickFile(f) ==
    /\ Len(uploads) < MaxPicks
    /\ isProcessing' = TRUE
    /\ uploads' = Append(uploads, [file |-> f, state |-> "busy"])
    /\ UNCHANGED <<selectedImage, scenery, pageCount, status, resultImages,
                   error, currentPage, loadingStep, pagesCompleted, library,
                   showLibrary, isLocating, hintBox, runs, started, calls,
                   locates, now, stored, phase, intervals, canvas>>

\* resizeAndCompress of pick i resolves: the canvas is drawn, onImageSelect
\* of App gets the data URL, finally clears the flag
ProcessDone(i) ==
    /\ i \in DOMAIN uploads
    /\ uploads[i].state = "busy"
    /\ LET f == uploads[i].file
           dims == ResizeDims(f.w, f.h)
       IN  /\ canvas' = [w |-> f.w, h |-> f.h,
                         width |-> dims[1], height |-> dims[2]]
           /\ selectedImage' = f.name
    /\ error' = Null
    /\ isProcessing' = FALSE
    /\ uploads' = [uploads EXCEPT ![i].state = "done"]
    /\ UNCHANGED <<scenery, pageCount, status, resultImages, currentPage,
                   loadingStep, pagesCompleted, library, showLibrary,
                   isLocating, hintBox, runs, started, calls, locates, now,
                   stored, phase, intervals>>

\* resizeAndCompress of pick i rejects (the file does not load as an
\* image): catch alerts, finally clears the flag
ProcessFail(i) ==
    /\ i \in DOMAIN uploads
    /\ uploads[i].state = "busy"
    /\ isProcessing' = FALSE
    /\ uploads' = [uploads EXCEPT ![i].state = "failed"]
    /\ UNCHANGED <<selectedImage, scenery, pageCount, status, resultImages,
                   error, currentPage, loadingStep, pagesCompleted, library,
                   showLibrary, isLocating, hintBox, runs, started, calls,
                   locates, now, stored, phase, intervals, canvas>>

----------------------------------------------------------------------------
(* Specification *)

\* handleGenerate is not invoked once limit invocations have passed validation
MayGenerate(limit) ==
    started < limit \/ selectedImage = Null \/ SceneryMissing(scenery)

\* the actions of the sidebar, the generation run and the loading of books,
\* with the photos, themes and slider values the user enters
Core(photos, themes, counts, limit) ==
    \/ \E img \in photos : OnImageSelect(img)
    \/ \E t \in themes : SetScenery(t)
    \/ \E n \in counts : SetPageCount(n)
    \/ MayGenerate(limit) /\ HandleGenerate
    \/ \E c \in calls : GenerateOk(c)
    \/ \E c \in calls : \E reason \in Reasons : GenerateFail(c, reason)
    \/ HandleReset
    \/ RestartFromError
    \/ ToggleLibrary
    \/ \E k \in 1 .. Len(library) : LoadBook(k)

\* saving and deleting books
Shelf ==
    \/ SaveToLibrary
    \/ \E k \in 1 .. Len(library) : DeleteBook(k)

\* the page controls of the book viewer
Pager ==
    \/ PrevPage
    \/ NextPage
    \/ HoverPrev
    \/ HoverNext
    \/ \E idx \in 0 .. MaxPages - 1 : Thumbnail(idx)

\* the Scan button and the settling of its calls
Scan ==
    \/ HandleLocateMe
    \/ \E l \in locates : \E raw \in Boxes \cup {NoBox} :
          /\ LocateTarget(raw).kind # "throw"
          /\ LocateResolve(l, LocateTarget(raw).box)
    \/ \E l \in locates : \E raw \in Boxes :
          /\ LocateTarget(raw).kind = "throw"
          /\ LocateFail(l)
    \/ \E l \in locates : LocateFail(l)

\* the actions of the book viewer
Viewer == Pager \/ Scan

\* The generation run with every slider value.  The actions left out change
\* library, now, currentPage, hintBox, isLocating and locates only; of these
\* the actions of Core read library alone, in LoadBook, where any book does
\* what the stored book does: it replaces the pages and the page count.
Next == Core(CorePhotos, CoreThemes, MinPages .. MaxPages, MaxRuns)

Spec == Init /\ [][Next]_vars

\* Two overlapping runs more than Spec allows
NextOverlap == Core(CorePhotos, CoreThemes, MinPages .. MaxPages, MaxRuns + 1)

SpecOverlap == Init /\ [][NextOverlap]_vars

\* The generation run of at most DefaultPages pages together with the viewer
NextView ==
    \/ Core(CorePhotos, CoreThemes, MinPages .. MinPages + 1, MaxRuns)
    \/ Viewer

SpecView == Init /\ [][NextView]_vars

\* The generation run of at most two pages with the loading messages
NextTimer ==
    \/ Core(CorePhotos, BootThemes, MinPages .. MinPages + 1, MaxRuns)
    \/ Tick

SpecTimer == Init /\ [][NextTimer]_vars

\* The uploader alone
NextUpload ==
    \/ \E f \in Files : PickFile(f)
    \/ \E i \in DOMAIN uploads : ProcessDone(i)
    \/ \E i \in DOMAIN uploads : ProcessFail(i)

SpecUpload == Init /\ [][NextUpload]_vars

\* Scans during runs of the theme and page count of the stored book
NextHint ==
    \/ MayGenerate(MaxRuns) /\ HandleGenerate
    \/ \E c \in calls : GenerateOk(c)
    \/ \E c \in calls : \E reason \in Reasons : GenerateFail(c, reason)
    \/ RestartFromError
    \/ ToggleLibrary
    \/ \E k \in 1 .. Len(library) : LoadBook(k)
    \/ Scan

SpecHint == Init /\ [][NextHint]_vars

\* the generate requests a run can issue
AllCalls == [run : 1 .. MaxRuns + 1, idx : 0 .. MaxPages - 1]

\* the response of request c is handled: the loop goes on or the run ends
Settle(c) == GenerateOk(c) \/ \E reason \in Reasons : GenerateFail(c, reason)

\* the generation run with the user acting at will, every request issued
\* being answered in the end: the promise of generateScene settles
NextLive == Core(CorePhotos, {<<"b">>}, MinPages .. MinPages + 1, MaxRuns)

SpecLive == Init /\ [][NextLive]_vars /\ \A c \in AllCalls : WF_vars(Settle(c))

\* Saving and deleting around runs that succeed: the stored book is loaded,
\* a run of its theme and page count is started, Reset clears the session
NextShelf ==
    \/ MayGenerate(MaxRuns) /\ HandleGenerate
    \/ \E c \in calls : GenerateOk(c)
    \/ HandleReset
    \/ ToggleLibrary
    \/ \E k \in 1 .. Len(library) : LoadBook(k)
    \/ Shelf

SpecShelf == Init /\ [][NextShelf]_vars

\* the photo and theme inputs, Reset, the overlay and the loading of books
Desk ==
    \/ \E img \in Photos : OnImageSelect(img)
    \/ \E t \in BootThemes : SetScenery(t)
    \/ HandleReset
    \/ ToggleLibrary
    \/ \E k \in 1 .. Len(library) : LoadBook(k)

\* From the first render: the mount effects, then the loading, saving and
\* deleting of books, with the photo and the theme changed in between.  No
\* handler runs before the mount effects or after a render threw.  The
\* generation run is left out: it reads and writes none of library, stored,
\* phase and now, and the pages a save takes are those of a loaded book.
NextBoot ==
    \/ Mount
    \/ /\ phase = "live"
       /\ (Desk \/ Shelf)

SpecBoot == InitBoot /\ [][NextBoot]_vars

----------------------------------------------------------------------------
(* Properties *)

\* the results of requests 0 .. n-1 of invocation id, in request order
RunPages(id, n) == [j \in 1 .. n |-> Img(id, j - 1)]

\* the step is the resolution of request c of an awaiting invocation
Resolves(c) == c.run \in DOMAIN runs /\ GenerateOk(c)

\* the step is the rejection of request c of an awaiting invocation
Rejects(c) == c.run \in DOMAIN runs /\ \E reason \in Reasons : GenerateFail(c, reason)

\* C1: a run whose calls all succeed ends, at the success of its last
\* request, with status Success, with exactly totalPages pages, page i the
\* result of request i, and with pagesCompleted equal to totalPages; before
\* its last request it has not ended.  totalPages is any value of the slider.
C1_FullRunSucceeds ==
    [][\A c \in calls :
          Resolves(c) =>
             LET total == runs[c.run].total
             IN  /\ total \in MinPages .. MaxPages
                 /\ IF c.idx + 1 = total
                    THEN /\ status' = SUCCESS
                         /\ resultImages' = RunPages(c.run, total)
                         /\ pagesCompleted' = total
                         /\ c.run \notin DOMAIN runs'
                    ELSE /\ c.idx + 1 < total
                         /\ c.run \in DOMAIN runs']_vars

\* a run of MaxPages pages has ended in Success
C1_Witness ==
    /\ status = SUCCESS
    /\ started = 1
    /\ runs = <<>>
    /\ pagesCompleted = MaxPages
    /\ resultImages = RunPages(1, MaxPages)

\* C2: when the call for page k of a run fails, the run ends with status
\* Error and exactly the results of requests 0 .. k-1 as pages, and no
\* further request of the run is outstanding or issued.
C2_FailureKeepsFirstK ==
    [][\A c \in calls :
          Rejects(c) =>
             /\ status' = ERROR
             /\ resultImages' = RunPages(c.run, c.idx)
             /\ c.run \notin DOMAIN runs'
             /\ \A d \in calls' : d.run # c.run]_vars

\* C3: handleGenerate invoked without a photo, or with a theme that holds
\* nothing but spaces, sets the error message and changes nothing else.
C3_MissingInputNoEffect ==
    [][(/\ HandleGenerate
        /\ \/ selectedImage = Null
           \/ \A k \in 1 .. Len(scenery) : scenery[k] = SP)
       => /\ error' \in {MsgNoImage, MsgNoScenery}
          /\ UNCHANGED <<selectedImage, scenery, pageCount, status,
                         resultImages, currentPage, loadingStep,
                         pagesCompleted, library, showLibrary, isLocating,
                         hintBox, runs, started, calls, locates, now>>]_vars

\* the theme of one space was rejected while page 2 of a book was viewed
C3_Witness ==
    /\ error = MsgNoScenery
    /\ scenery = <<SP>>
    /\ selectedImage # Null
    /\ status = SUCCESS
    /\ currentPage = 1

\* C4: every outstanding generate request belongs to an awaiting run, is the
\* request of the run's loop index, all earlier requests of the run have
\* resolved into its pages, and no run has two requests outstanding.
C4_Sequential ==
    /\ \A c \in calls :
          /\ c.run \in DOMAIN runs
          /\ c.idx = runs[c.run].i
          /\ runs[c.run].generatedPages = RunPages(c.run, c.idx)
    /\ \A c, d \in calls : c.run = d.run => c = d

\* the third request of a run is outstanding
C4_Witness == \E c \in calls : c.idx = 2

\* C5: pagesCompleted equals the number of pages held, in every state.
C5_CompletedIsLength == pagesCompleted = Len(resultImages)

\* C6: while status is Generating, a step that changes the pages appends
\* exactly one page and keeps the earlier ones.
C6_AppendOnly ==
    [][(status = GENERATING /\ resultImages' # resultImages)
       => /\ Len(resultImages') = Len(resultImages) + 1
          /\ SubSeq(resultImages', 1, Len(resultImages)) = resultImages]_vars

\* C7: the response of a generate call of a run that Reset has discarded
\* changes neither status nor pages nor pagesCompleted.
C7_ResetRunIgnored ==
    [][\A c \in calls :
          ((Resolves(c) \/ Rejects(c)) /\ runs[c.run].reset)
          => UNCHANGED <<status, resultImages, pagesCompleted>>]_vars

\* C8: in every state whose status is Idle there are no pages and
\* pagesCompleted is 0.
C8_IdleIsEmpty ==
    status = IDLE => (resultImages = <<>> /\ pagesCompleted = 0)

\* what a run from the initial state shows while invocation id awaits
FreshView(id) ==
    /\ status = GENERATING
    /\ resultImages = runs[id].generatedPages
    /\ pagesCompleted = runs[id].i
    /\ currentPage = 0
    /\ error = Null
    /\ hintBox = NoBox

\* C9: a run started after Reset shows what a run from the initial state
\* shows: at every response that arrives while it shows that, it goes on to
\* the next view of a fresh run (its own next page, its Success or its
\* Error), and a response of a run that Reset discarded changes nothing.
C9_RunAfterResetIsFresh ==
    [][\A c \in calls :
          (/\ Resolves(c) \/ Rejects(c)
           /\ started \in DOMAIN runs
           /\ FreshView(started)
           /\ c.run = started \/ runs[c.run].reset)
          => IF c.run # started
             THEN started \in DOMAIN runs' /\ FreshView(started)'
             ELSE /\ currentPage' = 0
                  /\ hintBox' = NoBox
                  /\ IF Resolves(c)
                     THEN /\ resultImages' = RunPages(started, c.idx + 1)
                          /\ pagesCompleted' = c.idx + 1
                          /\ error' = Null
                          /\ status' = IF c.idx + 1 = runs[started].total
                                       THEN SUCCESS ELSE GENERATING
                     ELSE /\ resultImages' = RunPages(started, c.idx)
                          /\ pagesCompleted' = c.idx
                          /\ error' # Null
                          /\ status' = ERROR]_vars

\* C10: while status is Generating the progress percentage lies in 0 .. 100
\* and no step lowers it; a run of 3 pages shows 0, 33, 67, 100.
C10_ProgressMonotone ==
    [][/\ status = GENERATING => progressPercentage \in 0 .. 100
       /\ (status = GENERATING /\ status' = GENERATING)
             => progressPercentage' >= progressPercentage
       /\ <<RoundPercent(0, 3), RoundPercent(1, 3), RoundPercent(2, 3),
            RoundPercent(3, 3)>> = <<0, 33, 67, 100>>]_vars

\* C11: a locate response that arrives when the viewed page index is no
\* longer the one the call was made for leaves the hint box null.
C11_StaleLocateDiscarded ==
    [][\A l \in locates : \A raw \in Boxes :
          (LocateResolve(l, LocateTarget(raw).box) /\ l.page # currentPage)
          => hintBox' = NoBox]_vars

\* C12: at most one locate call is in flight, and the busy flag is set
\* exactly while one is.
C12_OneLocateInFlight ==
    /\ Cardinality(locates) <= 1
    /\ isLocating <=> locates # {}

\* a locate call is in flight
C12_Witness == isLocating /\ Cardinality(locates) = 1

\* C13: a locate call that starts sets busy and clears the box; when it
\* settles busy is cleared, and the box is non-null afterwards exactly when
\* the gateway returned a box.
C13_LocateOutcomes ==
    [][/\ HandleLocateMe => (isLocating' /\ hintBox' = NoBox)
       /\ \A l \in locates :
             /\ \A box \in Boxes \cup {NoBox} :
                   LocateResolve(l, box) =>
                      (~isLocating' /\ (hintBox' # NoBox <=> box # NoBox))
             /\ LocateFail(l) => (~isLocating' /\ hintBox' = NoBox)]_vars

\* a box is shown after its locate call has settled
C13_Witness == hintBox # NoBox /\ ~isLocating /\ locates = {}

\* C14: the hint box is null or a box the remote capability answered,
\* unchanged, with 0 <= top <= bottom <= 1000 and 0 <= left <= right <= 1000.
C14_BoxInBounds ==
    hintBox # NoBox =>
       /\ hintBox \in Boxes
       /\ 0 <= hintBox[1] /\ hintBox[1] <= hintBox[3] /\ hintBox[3] <= 1000
       /\ 0 <= hintBox[2] /\ hintBox[2] <= hintBox[4] /\ hintBox[4] <= 1000

\* a box is shown
C14_Witness == hintBox # NoBox /\ PageExists(resultImages, currentPage)

\* C15: a save with at least one page puts exactly one new book in front of
\* the library: the first book has the title, pages and photo of the
\* session, the books after it are the previous library in its order.
C15_SavePrepends ==
    [][(SaveToLibrary /\ Len(resultImages) > 0) =>
          /\ Len(library') = Len(library) + 1
          /\ Head(library').title = scenery
          /\ Head(library').images = resultImages
          /\ Head(library').targetImage = selectedImage
          /\ Tail(library') = library]_vars

\* a book saved in front of the stored book
C15_Witness ==
    /\ Len(library) = 2
    /\ library[2] = StoredBook
    /\ library[1].createdAt = 1
    /\ library[1].images # <<>>

\* C16: the books of the library have pairwise distinct ids.
C16_IdsDistinct ==
    \A i, j \in DOMAIN library : i # j => library[i].id # library[j].id

\* the ids that a book of the model can have, and one more
SomeIds == {ToString(t) : t \in 0 .. MaxClock + 1}

\* the number of books with the id among the first n books
CountId(books, id, n) == Cardinality({j \in 1 .. n : books[j].id = id})

C18_EmptySaveRejected ==
    [][(SaveToLibrary /\ Len(resultImages) = 0)
          => UNCHANGED <<library, stored>>]_vars

\* the Save button is shown and there is no page
C18_Witness ==
    /\ phase = "live"
    /\ status = SUCCESS
    /\ Len(resultImages) = 0
    /\ ENABLED SaveToLibrary

\* C19: while the component is mounted the stored value is the text of the
\* library, and a first render that finds this value loads the same books
\* in the same order.
C19_LibrarySurvivesReload ==
    phase = "live" =>
       /\ stored.present
       /\ stored.text = Stringify(library)
       /\ Loaded(stored).kind = "array"
       /\ Loaded(stored).val = library

\* two books saved in the session are stored
C19_Witness ==
    /\ phase = "live"
    /\ Len(library) = 2
    /\ library[2].createdAt = 1
    /\ stored.present

\* a stored value that is absent, does not parse, or parses to something
\* other than a list
BadStored(saved) ==
    \/ ~saved.present
    \/ ~JsonParse(saved.text).ok
    \/ JsonParse(saved.text).kind # "array"

\* C20: the first render and its effects complete with the empty library
\* when the stored value is bad.
C20_BadStoredIsEmpty ==
    [][(Mount /\ BadStored(stored))
          => (phase' = "live" /\ library' = <<>>)]_vars

\* C21: at most one interval exists, one exists exactly while status is
\* GENERATING, and the loading step changes only in a state whose status is
\* GENERATING.
C21_TimerOnlyWhileGenerating ==
    [][/\ intervals' <= 1
       /\ intervals' = 1 <=> status' = GENERATING
       /\ loadingStep' # loadingStep => status = GENERATING]_vars

\* the loading step has advanced and the run is over
C21_Witness == loadingStep > 0 /\ status = SUCCESS /\ intervals = 0

\* C22: a step that is not a deletion keeps every book of the library as it
\* is and where it is, counted from the oldest; a deletion leaves only books
\* that were there, as they were.
C22_SavedBooksImmutable ==
    [][IF \E k \in DOMAIN library : DeleteBook(k)
       THEN \A i \in DOMAIN library' :
               \E j \in DOMAIN library : library[j] = library'[i]
       ELSE /\ Len(library') >= Len(library)
            /\ SubSeq(library', Len(library') - Len(library) + 1,
                      Len(library')) = library]_vars

\* a book saved in the session is in the library while other pages and
\* another theme are on screen
C22_Witness ==
    \E i \in DOMAIN library :
       /\ library[i].id = ToString(1)
       /\ library[i].images # resultImages
       /\ library[i].title # scenery
       /\ Len(resultImages) > 0

\* C23: the start of a locate call and the handling of its response, box,
\* null or rejection, leave status, error, pages and pagesCompleted as they
\* are.
C23_LocateKeepsRunState ==
    [][(\/ HandleLocateMe
        \/ \E l \in locates : LocateFail(l)
        \/ \E l \in locates : \E box \in Boxes \cup {NoBox} :
              LocateResolve(l, box))
          => UNCHANGED <<status, error, resultImages, pagesCompleted>>]_vars

\* a locate call made during a run has returned a box, the run goes on
C23_Witness ==
    /\ status = GENERATING
    /\ hintBox # NoBox
    /\ ~isLocating
    /\ calls # {}

\* C24: the canvas is never larger than the image nor than 1200 on either
\* axis; an image within 1200 x 1200 keeps its size; a larger one gets 1200
\* on its longer side and, on the other side, the whole pixels of the
\* proportional length or one pixel less (3000 x 1500 gives 1200 x 600).
C24_ResizeBounds ==
    canvas # NoCanvas =>
       LET w == canvas.w
           h == canvas.h
           ow == canvas.width
           oh == canvas.height
       IN  /\ ow <= Min(w, 1200) /\ oh <= Min(h, 1200)
           /\ (w <= 1200 /\ h <= 1200) => (ow = w /\ oh = h)
           /\ (w > 1200 /\ w > h) =>
                 /\ ow = 1200
                 /\ oh * w <= h * 1200 /\ h * 1200 <= (oh + 1) * w
           /\ (h > 1200 /\ h >= w) =>
                 /\ oh = 1200
                 /\ ow * h <= w * 1200 /\ w * 1200 <= (ow + 1) * h
           /\ (w = 3000 /\ h = 1500) => (ow = 1200 /\ oh = 600)

\* a portrait image larger than the bound has been drawn
C24_Witness == canvas.w = 1500 /\ canvas.h = 3000 /\ canvas.height = 1200

\* C25: at most one generate request is outstanding, and while one is
\* outstanding the status is GENERATING.
C25_RunsNeverOverlap ==
    /\ Cardinality(calls) <= 1
    /\ calls # {} => status = GENERATING

\* a saved book is made of the pages of one run that has returned, or of a
\* loaded book: none of its pages is of a run that still awaits a request
BookOfFinishedRun(book) ==
    \A j \in DOMAIN book.images : book.images[j].run \notin DOMAIN runs

\* C26: every save makes a book whose pages are those of one run that
\* reached Success or of the book loaded, never pages of a run that is still
\* in flight.
C26_SavedBookConsistent ==
    [][(SaveToLibrary /\ Len(resultImages) > 0) =>
          BookOfFinishedRun(Head(library'))]_vars

\* C27: a box that a locate call returns is stored only when the image of
\* that call is the image at the page viewed.
C27_HintOfShownImage ==
    [][\A l \in locates : \A raw \in Boxes :
          (/\ LocateTarget(raw).kind = "box"
           /\ LocateResolve(l, raw)
           /\ hintBox' # NoBox)
          => /\ PageExists(resultImages, currentPage)
             /\ resultImages[currentPage + 1] = l.image]_vars

\* C28: the page index is not negative and, when there are pages, less than
\* their number.
C28_PageIndexValid ==
    /\ currentPage >= 0
    /\ Len(resultImages) > 0 => currentPage < Len(resultImages)

\* C29: every request outstanding is that of the current iteration of its
\* run, whose index is below the total of the run, and a status of Generating
\* leads to Success or Error when every request issued is answered.
C29_RunTerminates ==
    /\ [](\A c \in calls : c.run \in DOMAIN runs =>
              /\ c.idx = runs[c.run].i
              /\ c.idx < runs[c.run].total)
    /\ (status = GENERATING ~> status \in {SUCCESS, ERROR})

C29_Witness ==
    /\ status = SUCCESS
    /\ started = 1
    /\ DOMAIN runs = {}
    /\ pagesCompleted = MinPages + 1
    /\ Len(resultImages) = MinPages + 1

\* C30: while a file is processed the flag is set, and once the file picked
\* last has been processed the photo selected is the photo of that file.
C30_LastPickWins ==
    /\ (\E i \in DOMAIN uploads : uploads[i].state = "busy") => isProcessing
    /\ (Len(uploads) > 0 /\ uploads[Len(uploads)].state = "done")
          => selectedImage = uploads[Len(uploads)].file.name

====
